---------------------------- MODULE Spec2Model ----------------------------
(***************************************************************************)
(* Tech Referee: the bounded parallel executor                             *)
(* (src/lib/utils/parallel-executor.ts), the session store                 *)
(* (src/lib/stores/session.ts) and the pipeline that ComparisonChat        *)
(* (src/components/ui/ComparisonChat.tsx) drives through the four phases.  *)
(*                                                                         *)
(* Array indices are the 0-based indices of the TypeScript source.         *)
(***************************************************************************)
EXTENDS Integers, Sequences, FiniteSets, TLC

\* ------------------------------------------------------------------ bounds
MaxItems == 3
MaxK == 3
MaxSessions == 2      \* queries submitted (sessions created) in one behaviour
MaxFailures == 1      \* failed per-option requests in one multi-session behaviour
MaxQuestions == 2     \* clarification questions the planner may ask
MaxRounds == 1        \* planner answers that ask for clarification, per behaviour
MaxRetries == 2       \* the largest maxRetries option withRetry is called with
MaxResults == 2       \* results in one answer of the search provider
MaxAxes == 2          \* axes of a plan the planner model produces
MaxLateCalls == 3     \* store calls of a run in flight, per behaviour

\* ------------------------------------------------------------------ values
Undefined == "undefined"
HookKinds == {"start", "complete", "error"}
NoId == 0                 \* a null session id
None == <<>>              \* an optional field that is not set
Some(v) == <<v>>          \* an optional field that is set
MaxOptions == 3           \* ComparisonPlanSchema: options: z.array(z.string()).max(3)
MaxParallelismSetting == 3

VARIABLES
  \* --- executeInParallel: its options and its locals
  execOpts,         \* options: items, maxParallelism, and how executor and hooks behave
  promise,          \* the promise executeInParallel returned: none/pending/resolved/rejected
  batchStartIndex,  \* the loop variable i
  tasks,            \* index -> state of its batchPromises entry
  results,          \* results[]: index -> value, Undefined where never assigned
  errors,           \* errors[]: sequence of failed indices, in push order
  successful,
  failed,
  calls,            \* index -> number of times executor was called for it
  completionOrder,  \* the indices in the order their executors settled
  \* --- useSessionStore
  sessions,         \* PartialSession[], newest first
  currentSessionId,
  nextUUID,         \* the next value of crypto.randomUUID()
  \* --- useSettingsStore
  maxParallelism,
  \* --- ComparisonChat: React state as of the latest render
  sessionId,
  phase,
  isLoading,
  error,
  clarifications,
  clarificationAnswers,
  \* --- the pipeline run in progress (the async chain started by callPlanner)
  run,              \* its closure (sessionId, query, plan) and its locals
  http,             \* fetch requests issued and not yet answered
  rounds,           \* clarification rounds so far
  quota,            \* what the environment may do: queries to submit,
                    \* per-option requests to fail, clarification rounds in all
  \* --- the server side: an API route handling one request
  route,            \* the request, and the response once the handler returned
  \* --- withRetry and the research tool that calls it
  retry,            \* withRetry's options and locals, and the calls of fn so far
  tool              \* one execute() of the webSearch tool

execVars == <<execOpts, promise, batchStartIndex, tasks, results, errors,
              successful, failed, calls, completionOrder>>

storeVars == <<sessions, currentSessionId, nextUUID>>
chatVars == <<maxParallelism, sessionId, phase, isLoading, error, clarifications,
              clarificationAnswers, run, http, rounds, quota>>

utilVars == <<route, retry, tool>>

vars == <<execVars, storeVars, chatVars, utilVars>>

\* ------------------------------------------------- the stores as created
\* No pipeline run: the closure and the locals of a run are empty.
\* The empty Record of clarification answers. An answer is kept under its
\* question's id; its value is modelled by the round whose question it answers.
NoAnswers == [q \in {} |-> 0]

IdleRun ==
  [pc |-> "idle", sid |-> NoId, query |-> "", answers |-> NoAnswers, plan |-> <<>>,
   i |-> 0, advResponses |-> <<>>, ceResponses |-> <<>>]

\* No request is being handled by an API route.
IdleRoute == [pc |-> "idle", req |-> None, resp |-> None, modelCalls |-> 0]

\* withRetry is not running.
IdleRetry ==
  [pc |-> "idle", fn |-> "", maxRetries |-> 0, isRetryable |-> "default",
   onRetry |-> "none", attempt |-> 0, lastError |-> None, fnCalls |-> <<>>,
   settled |-> None]

\* The webSearch tool is not executing.
IdleTool == [pc |-> "idle", apiKey |-> FALSE, returned |-> None]

UtilAtRest ==
  /\ route = IdleRoute
  /\ retry = IdleRetry
  /\ tool = IdleTool

\* useSessionStore's initial state and ComparisonChat's useState() defaults
\* (no sessionId prop), for a given maxParallelism setting.
StoresAsCreated(mp, q) ==
  /\ quota = q
  /\ sessions = <<>>
  /\ currentSessionId = NoId
  /\ nextUUID = 1
  /\ maxParallelism = mp
  /\ sessionId = NoId
  /\ phase = "input"
  /\ isLoading = FALSE
  /\ error = None
  /\ clarifications = {}
  /\ clarificationAnswers = NoAnswers
  /\ run = IdleRun
  /\ http = {}
  /\ rounds = 0

\* ------------------------------------------------------- executeInParallel
\* The item at index j; items are opaque to the executor.
ItemAt(j) == <<"item", j>>

\* What the executor function resolves with for an item.
WorkerValue(item) == <<"value", item>>

N == Len(execOpts.items)
Indices == 0 .. (N - 1)

\* Indices whose executor was called and has not settled.
InFlight == {j \in Indices : tasks[j] = "running"}

\* Does lifecycle hook `kind` throw when called for index j?
HookThrows(kind, j) == kind \in execOpts.hookThrows /\ j \in execOpts.hookItems

\* (mutant) a slice one item too long
BatchOf_OffByOne(i) == {j \in Indices : i <= j /\ j <= i + execOpts.maxParallelism}

\* items.slice(i, i + maxParallelism), as the set of its global indices
BatchOf(i) == {j \in Indices : i <= j /\ j < i + execOpts.maxParallelism}

ExecInputs ==
  { [items |-> [x \in 1 .. n |-> ItemAt(x - 1)], maxParallelism |-> k,
     failing |-> f, hookThrows |-> h, hookItems |-> hi] :
      n \in 0 .. MaxItems, k \in 1 .. MaxK,
      f \in SUBSET (0 .. (MaxItems - 1)),
      h \in SUBSET HookKinds, hi \in SUBSET (0 .. (MaxItems - 1)) }

ExecInit ==
  /\ StoresAsCreated(2, [queries |-> 0, failures |-> 0, rounds |-> 0])
  /\ UtilAtRest
  /\ execOpts \in { o \in ExecInputs :
                      /\ o.failing \subseteq 0 .. (Len(o.items) - 1)
                      /\ o.hookItems \subseteq 0 .. (Len(o.items) - 1)
                      /\ (o.hookThrows = {}) <=> (o.hookItems = {}) }
  /\ promise = "none"
  /\ batchStartIndex = 0
  /\ tasks = [j \in 0 .. (Len(execOpts.items) - 1) |-> "notStarted"]
  /\ results = [j \in 0 .. (Len(execOpts.items) - 1) |-> Undefined]
  /\ errors = <<>>
  /\ successful = 0
  /\ failed = 0
  /\ calls = [j \in 0 .. (Len(execOpts.items) - 1) |-> 0]
  /\ completionOrder = <<>>

\* batch.map(async (item, batchIndex) => ...) up to each task's first await:
\* onItemStart is called, then the executor. A task whose onItemStart throws
\* is rejected without calling the executor.
TaskAtStart(j) == IF HookThrows("start", j) THEN "rejected" ELSE "running"

\* One iteration of the for loop, from the slice to `await Promise.all`.
\* Promise.all rejects as soon as one task is rejected.
EnterBatch(t, i) ==
  /\ batchStartIndex' = i
  /\ tasks' = [j \in Indices |-> IF j \in BatchOf(i) THEN TaskAtStart(j) ELSE t[j]]
  /\ calls' = [j \in Indices |->
                 IF j \in BatchOf(i) /\ TaskAtStart(j) = "running"
                   THEN calls[j] + 1 ELSE calls[j]]
  /\ promise' = IF \E j \in BatchOf(i) : TaskAtStart(j) = "rejected"
                  THEN "rejected" ELSE "pending"

\* The loop test `i < items.length`, then the body or the return.
LoopFrom(t, i) ==
  IF i < N
    THEN EnterBatch(t, i)
    ELSE /\ promise' = "resolved"
         /\ tasks' = t
         /\ UNCHANGED <<batchStartIndex, calls>>

\* The call executeInParallel(options).
ExecCall ==
  /\ promise = "none"
  /\ LoopFrom(tasks, 0)
  /\ UNCHANGED <<execOpts, results, errors, successful, failed, completionOrder>>
  /\ UNCHANGED <<storeVars, chatVars, utilVars>>

\* The catch block: errors.push, failed++, onItemError.
CatchBlock(j, succ) ==
  /\ errors' = Append(errors, j)
  /\ failed' = failed + 1
  /\ successful' = succ

\* (mutant) no try/catch around the awaited executor: a rejection escapes the task
TaskOutcome_NoCatch(j) ==
  IF j \in execOpts.failing \/ HookThrows("complete", j) THEN "rejected" ELSE "resolved"

\* How the task of index j ends once its executor has settled.
TaskOutcome(j) ==
  IF j \in execOpts.failing
    THEN IF HookThrows("error", j) THEN "rejected" ELSE "resolved"
    ELSE IF ~HookThrows("complete", j) THEN "resolved"
         ELSE IF HookThrows("error", j) THEN "rejected" ELSE "resolved"

\* (mutant) the loop goes on as soon as one task of the batch is fulfilled
BatchSettled_Any(t, i) == \E x \in BatchOf(i) : t[x] = "resolved"

\* `await Promise.all(batchPromises)` lets the loop go on: every task of the
\* batch at i is fulfilled.
BatchSettled(t, i) == \A x \in BatchOf(i) : t[x] = "resolved"

\* (mutant) results.push(result): the slot is the completion position
StoreResult_Push(j) ==
  [results EXCEPT ![Len(completionOrder)] = WorkerValue(execOpts.items[j + 1])]

\* results[globalIndex] = result
StoreResult(j) == [results EXCEPT ![j] = WorkerValue(execOpts.items[j + 1])]

\* The executor's promise for index j settles and the task runs to its end;
\* then, if that settles Promise.all, the function continues after the await.
ExecSettle(j) ==
  /\ j \in InFlight
  /\ IF j \in execOpts.failing
       THEN /\ CatchBlock(j, successful)
            /\ UNCHANGED results
       ELSE /\ results' = StoreResult(j)
            /\ IF HookThrows("complete", j)
                 THEN CatchBlock(j, successful + 1)
                 ELSE /\ successful' = successful + 1
                      /\ UNCHANGED <<errors, failed>>
  /\ LET t == [tasks EXCEPT ![j] = TaskOutcome(j)]
     IN  IF promise # "pending"
           THEN /\ tasks' = t
                /\ UNCHANGED <<promise, batchStartIndex, calls>>
           ELSE IF TaskOutcome(j) = "rejected"
             THEN /\ promise' = "rejected"
                  /\ tasks' = t
                  /\ UNCHANGED <<batchStartIndex, calls>>
             ELSE IF BatchSettled(t, batchStartIndex)
               THEN LoopFrom(t, batchStartIndex + execOpts.maxParallelism)
               ELSE /\ tasks' = t
                    /\ UNCHANGED <<promise, batchStartIndex, calls>>
  /\ completionOrder' = Append(completionOrder, j)
  /\ UNCHANGED execOpts
  /\ UNCHANGED <<storeVars, chatVars, utilVars>>

ExecNext ==
  \/ ExecCall
  \/ \E j \in Indices : ExecSettle(j)

ExecSpec == ExecInit /\ [][ExecNext]_vars

\* ------------------------------------------- claims on executeInParallel
NoHookThrows == execOpts.hookThrows = {}

\* C1: whatever subset of the items has a rejecting executor (and no lifecycle
\* hook throws), the executor is called at most once per item, the returned
\* promise never rejects, a pending run always has a worker left to wait for,
\* and when the promise resolves every item has been run exactly once and
\* its task has ended normally: no failure skips or cancels another item.
C1_FailureIsolation ==
  NoHookThrows =>
    /\ promise # "rejected"
    /\ \A j \in Indices : calls[j] <= 1
    /\ (promise = "pending" => InFlight # {})
    /\ (promise = "resolved" =>
          \A j \in Indices : calls[j] = 1 /\ tasks[j] = "resolved")

\* A run of 3 items in batches of 2 whose first item failed has resolved
\* with all three items run.
C1_Witness ==
  /\ NoHookThrows /\ N = 3 /\ execOpts.maxParallelism = 2
  /\ execOpts.failing = {0}
  /\ promise = "resolved"
  /\ \A j \in Indices : calls[j] = 1
  /\ errors = <<0>>

\* C2: at every moment the number of items whose executor has been started
\* and has not settled is at most maxParallelism.
C2_ConcurrencyCap == Cardinality(InFlight) <= execOpts.maxParallelism

\* More items than the limit, and exactly `limit` of them in flight.
C2_Witness ==
  /\ N = 3 /\ execOpts.maxParallelism = 2
  /\ Cardinality(InFlight) = 2

\* What the executor resolves with for index j, Undefined when it rejects.
ExpectedResult(j) ==
  IF j \in execOpts.failing THEN Undefined ELSE WorkerValue(execOpts.items[j + 1])

\* C6: the results array returned maps each index to the worker's value for
\* the item at that index (no value where the worker rejected), whatever the
\* order in which the workers completed.
C6_OrderIndependence ==
  promise = "resolved" => \A j \in Indices : results[j] = ExpectedResult(j)

\* A resolved run whose three concurrent workers completed in reverse order.
C6_Witness ==
  /\ promise = "resolved" /\ N = 3 /\ execOpts.maxParallelism = 3
  /\ execOpts.failing = {}
  /\ completionOrder = <<2, 1, 0>>
  /\ \A j \in Indices : results[j] = WorkerValue(ItemAt(j))

\* The batch (0-based) an index belongs to.
BatchNo(j) == j \div execOpts.maxParallelism

\* C7: the tasks started so far are exactly the items before the end of the
\* current batch, batches begin at multiples of maxParallelism, and whenever
\* a worker has been started every task of every earlier batch has settled.
C7_BatchBarrier ==
  /\ batchStartIndex % execOpts.maxParallelism = 0
  /\ promise # "none" =>
        {j \in Indices : tasks[j] # "notStarted"} =
          {j \in Indices : j < batchStartIndex + execOpts.maxParallelism}
  /\ \A j \in Indices : calls[j] > 0 =>
        \A x \in Indices : BatchNo(x) < BatchNo(j) => tasks[x] \in {"resolved", "rejected"}

\* The second batch is running after a first batch in which a worker rejected.
C7_Witness ==
  /\ N = 3 /\ execOpts.maxParallelism = 2
  /\ execOpts.failing = {1}
  /\ tasks[2] = "running"
  /\ completionOrder = <<1, 0>>


\* ------------------------------------------------------------ session store
\* executeInParallel is not running while the chat component is exercised.
ExecAtRest ==
  /\ execOpts = [items |-> <<>>, maxParallelism |-> 1, failing |-> {},
                 hookThrows |-> {}, hookItems |-> {}]
  /\ promise = "none"
  /\ batchStartIndex = 0
  /\ tasks = <<>>
  /\ results = <<>>
  /\ errors = <<>>
  /\ successful = 0
  /\ failed = 0
  /\ calls = <<>>
  /\ completionOrder = <<>>

SessionIds(ss) == {ss[x].id : x \in DOMAIN ss}

\* getSession: sessions.find((s) => s.id === id); the ids of a store are distinct
HasSession(ss, id) == id \in SessionIds(ss)
getSession(ss, id) == ss[CHOOSE x \in DOMAIN ss : ss[x].id = id]

\* The session createSession builds for a query.
NewSession(id, query) ==
  [id |-> id, query |-> query, status |-> "pending", completedPhases |-> <<>>,
   plan |-> None, arguments |-> None, crossExaminations |-> None,
   result |-> None, error |-> None,
   transcript |-> Some([entries |-> <<"user_query">>, completedAt |-> None])]

\* createSession: sessions: [session, ...state.sessions]
createSession(ss, id, query) == <<NewSession(id, query)>> \o ss

\* { ...s, ...data }
Spread(s, data) ==
  [f \in DOMAIN s \cup DOMAIN data |-> IF f \in DOMAIN data THEN data[f] ELSE s[f]]

\* (mutant) an update for an id the store does not hold inserts a session
updateSession_Upsert(ss, id, data) ==
  IF \E x \in DOMAIN ss : ss[x].id = id
    THEN [x \in DOMAIN ss |-> IF ss[x].id = id THEN Spread(ss[x], data) ELSE ss[x]]
    ELSE <<Spread([id |-> id], data)>> \o ss

\* updateSession: sessions.map((s) => s.id === id ? { ...s, ...data } : s)
updateSession(ss, id, data) ==
  [x \in DOMAIN ss |-> IF ss[x].id = id THEN Spread(ss[x], data) ELSE ss[x]]

\* deleteSession: sessions.filter((s) => s.id !== id)
deleteSession(ss, id) == SelectSeq(ss, LAMBDA s : s.id # id)

\* markSessionError's phases, determined from the data the session holds
PhasesOf(session) ==
  (IF session.plan # None THEN <<"planning">> ELSE <<>>)
  \o (IF session.arguments # None /\ Len(session.arguments[1]) > 0
        THEN <<"advocating">> ELSE <<>>)
  \o (IF session.crossExaminations # None /\ Len(session.crossExaminations[1]) > 0
        THEN <<"cross-examining">> ELSE <<>>)

\* (mutant) the errored session is rebuilt from its id and query alone
markSessionError_Reset(ss, id, message) ==
  IF ~HasSession(ss, id) THEN ss
  ELSE [x \in DOMAIN ss |->
          IF ss[x].id = id
            THEN Spread(NewSession(id, ss[x].query),
                        [status |-> "error", error |-> Some(message)])
            ELSE ss[x]]

\* markSessionError(id, error): no completedPhases argument is passed
markSessionError(ss, id, message) ==
  IF ~HasSession(ss, id) THEN ss
  ELSE [x \in DOMAIN ss |->
          IF ss[x].id = id
            THEN Spread(ss[x], [status |-> "error", error |-> Some(message),
                                completedPhases |-> PhasesOf(getSession(ss, id))])
            ELSE ss[x]]

\* `if (sessionId) { updateSession(sessionId, data) }` with the sessionId of
\* the closure that runs
WriteIf(ss, sid, data) == IF sid # NoId THEN updateSession(ss, sid, data) ELSE ss


\* ------------------------------------------------------------ ComparisonChat
Queries == {"q1"}
OptionLabels == <<"A", "B", "C">>
QuestionIds == 1 .. MaxQuestions

\* The plans /api/planner may answer with: 1 to 3 options, distinct labels or
\* (the schema does not forbid it) one label twice.
PlanChoices ==
  { SubSeq(OptionLabels, 1, n) : n \in 1 .. MaxOptions } \cup {<<"A", "A">>}

\* The APIError bodies a failed request may carry (errors.ts).
Failures ==
  { [code |-> "AGENT_FAILED", retryable |-> TRUE],
    [code |-> "API_KEY_MISSING", retryable |-> FALSE] }

Req(api, j) == [api |-> api, idx |-> j]
Pending(h, api) == {r \in h : r.api = api}

\* (mutant) a concurrency limit of 0: the slice is empty
ChatBatch_ZeroLimit(api, n, i) ==
  {Req(api, j) : j \in {x \in 0 .. (n - 1) : i <= x /\ x < i}}

\* options.slice(i, i + maxParallelism), as indices, each one fetched
ChatBatch(api, n, i) ==
  {Req(api, j) : j \in {x \in 0 .. (n - 1) : i <= x /\ x < i + maxParallelism}}

\* (mutant) the phase goes on without waiting for the batch
PhaseBatchSettled_NoAwait(h, api) == TRUE

\* `await Promise.all(batchPromises)` of runAdvocates / runCrossExaminers
PhaseBatchSettled(h, api) == Pending(h, api) = {}

\* (mutant) a failed advocate leaves no entry
PushAdvocate_DropFailed(responses, option, ok) ==
  IF ok THEN Append(responses, [option |-> option, error |-> FALSE]) ELSE responses

\* responses.push(advocateResponse) / responses.push(partialResponse)
PushAdvocate(responses, option, ok) ==
  Append(responses, [option |-> option, error |-> ~ok])

\* responses.push(crossExamResponse) / responses.push(partialResponse)
PushCrossExam(responses, option, ok) ==
  Append(responses, [option |-> option, error |-> ~ok])

\* handleError(err, context), run by the closure whose sessionId is sid
handleError(sid, e, context) ==
  /\ error' = Some([code |-> e.code, retryable |-> e.retryable, context |-> context])
  /\ phase' = "error"
  /\ isLoading' = FALSE
  /\ sessions' = IF sid # NoId THEN markSessionError(sessions, sid, e.code) ELSE sessions
  /\ run' = IdleRun

\* callPlanner up to its `await fetch("/api/planner")`
callPlanner(sid, query, answers) ==
  /\ phase' = "planning"
  /\ isLoading' = TRUE
  /\ error' = None
  /\ run' = [IdleRun EXCEPT !.pc = "planner", !.sid = sid, !.query = query,
                            !.answers = answers]
  /\ http' = {Req("planner", 0)}

\* runReferee up to its `await fetch("/api/referee")`
runReferee(ss, r, h) ==
  /\ phase' = "refereeing"
  /\ sessions' = WriteIf(ss, r.sid, [status |-> "refereeing"])
  /\ run' = [r EXCEPT !.pc = "referee"]
  /\ http' = h \cup {Req("referee", 0)}

\* runCrossExaminers up to the first `await Promise.all`; with no advocate
\* argument the loop body never runs and the referee is called at once.
runCrossExaminers(ss, r, h) ==
  LET s1 == WriteIf(ss, r.sid, [status |-> "cross-examining"])
      r1 == [r EXCEPT !.pc = "crossExam", !.i = 0, !.ceResponses = <<>>]
  IN  IF Len(r.advResponses) = 0
        THEN runReferee(WriteIf(s1, r.sid, [crossExaminations |-> Some(<<>>)]), r1, h)
        ELSE /\ phase' = "cross-examining"
             /\ sessions' = s1
             /\ run' = r1
             /\ http' = h \cup ChatBatch("cross-examine", Len(r.advResponses), 0)

\* runAdvocates up to the first `await Promise.all`
runAdvocates(ss, r, h) ==
  /\ phase' = "advocating"
  /\ isLoading' = TRUE
  /\ sessions' = WriteIf(ss, r.sid, [status |-> "advocating"])
  /\ run' = [r EXCEPT !.pc = "advocates", !.i = 0, !.advResponses = <<>>]
  /\ http' = h \cup ChatBatch("advocate", Len(r.plan), 0)

\* createSession(query), setSessionId, the state resets, then callPlanner:
\* the callPlanner that runs is the one handleQuerySubmit closed over, whose
\* sessionId is the state of the render that created it, not the new id
submitQuery(query) ==
  /\ sessions' = createSession(sessions, nextUUID, query)
  /\ currentSessionId' = nextUUID
  /\ nextUUID' = nextUUID + 1
  /\ quota' = [quota EXCEPT !.queries = quota.queries - 1]
  /\ sessionId' = nextUUID
  /\ clarifications' = {}
  /\ clarificationAnswers' = NoAnswers
  /\ callPlanner(sessionId, query, NoAnswers)
  /\ UNCHANGED <<maxParallelism, rounds, execVars, utilVars>>

\* The QueryInput is rendered and enabled.
handleQuerySubmit(query) ==
  /\ phase # "complete" /\ ~isLoading /\ phase # "clarifying"
  /\ quota.queries > 0
  /\ submitQuery(query)

\* The "Try Again" button of ErrorDisplay
handleRetry ==
  /\ error # None
  /\ error[1].retryable
  /\ error[1].code \notin {"API_KEY_MISSING", "API_KEY_INVALID"}
  /\ sessionId # NoId /\ HasSession(sessions, sessionId)
  /\ quota.queries > 0
  /\ submitQuery(getSession(sessions, sessionId).query)

\* /api/planner answers with an error body
PlannerFails(e) ==
  /\ run.pc = "planner" /\ Req("planner", 0) \in http
  /\ handleError(run.sid, e, "Planner")
  /\ http' = {}
  /\ UNCHANGED <<currentSessionId, nextUUID, maxParallelism, sessionId,
                 clarifications, clarificationAnswers, rounds, quota, execVars, utilVars>>

\* /api/planner answers with clarification questions
PlannerAsks(qs) ==
  /\ run.pc = "planner" /\ Req("planner", 0) \in http
  /\ rounds < quota.rounds
  /\ rounds' = rounds + 1
  /\ clarifications' = qs
  /\ phase' = "clarifying"
  /\ isLoading' = FALSE
  /\ run' = IdleRun
  /\ http' = {}
  /\ UNCHANGED <<sessions, currentSessionId, nextUUID, maxParallelism, sessionId,
                 error, clarificationAnswers, quota, execVars, utilVars>>

\* /api/planner answers with a plan
PlannerPlans(p) ==
  /\ run.pc = "planner" /\ Req("planner", 0) \in http
  /\ runAdvocates(WriteIf(sessions, run.sid, [plan |-> Some(p), status |-> "advocating"]),
                  [run EXCEPT !.plan = p], {})
  /\ UNCHANGED <<currentSessionId, nextUUID, maxParallelism, sessionId, error,
                 clarifications, clarificationAnswers, rounds, quota, execVars, utilVars>>


\* What a fan-out step leaves alone.
\* A per-option request answers: ok, or (while the environment may) failed.
Answer(ok) ==
  /\ ok \/ quota.failures > 0
  /\ quota' = IF ok THEN quota ELSE [quota EXCEPT !.failures = quota.failures - 1]

FanOutFrame ==
  UNCHANGED <<currentSessionId, nextUUID, maxParallelism, sessionId, isLoading,
              error, clarifications, clarificationAnswers, rounds, execVars, utilVars>>

\* (mutant) a failed advocate request is rethrown to handleError
AdvocateSettles_Rethrow(j, ok) ==
  /\ run.pc = "advocates" /\ Req("advocate", j) \in http
  /\ ok = FALSE
  /\ Answer(ok)
  /\ handleError(run.sid, [code |-> "AGENT_FAILED", retryable |-> TRUE], "Advocate")
  /\ http' = http \ {Req("advocate", j)}
  /\ UNCHANGED <<currentSessionId, nextUUID, maxParallelism, sessionId,
                 clarifications, clarificationAnswers, rounds, execVars, utilVars>>

\* The fetch of /api/advocate for options[j] settles: the task pushes its
\* response or its placeholder; if that settles Promise.all, runAdvocates
\* goes on to the next batch or stores the responses and calls
\* runCrossExaminers.
AdvocateSettles(j, ok) ==
  /\ run.pc = "advocates" /\ Req("advocate", j) \in http
  /\ Answer(ok)
  /\ LET responses == PushAdvocate(run.advResponses, run.plan[j + 1], ok)
         h == http \ {Req("advocate", j)}
         r == [run EXCEPT !.advResponses = responses]
     IN  IF ~PhaseBatchSettled(h, "advocate")
           THEN /\ run' = r
                /\ http' = h
                /\ UNCHANGED <<sessions, phase>>
           ELSE IF run.i + maxParallelism < Len(run.plan)
             THEN /\ run' = [r EXCEPT !.i = run.i + maxParallelism]
                  /\ http' = h \cup ChatBatch("advocate", Len(run.plan),
                                              run.i + maxParallelism)
                  /\ UNCHANGED <<sessions, phase>>
             ELSE runCrossExaminers(
                    WriteIf(sessions, run.sid, [arguments |-> Some(responses)]), r, h)
  /\ FanOutFrame

\* ------------------------------ what the cross-examine route answers
\* ErrorStatusCode
ErrorStatusCode(code) ==
  CASE code = "INVALID_REQUEST" -> 400
    [] code \in {"API_KEY_MISSING", "API_KEY_INVALID"} -> 401
    [] code = "RATE_LIMITED" -> 429
    [] code = "AGENT_FAILED" -> 500
    [] code = "SEARCH_FAILED" -> 503

\* errorResponse(createAPIError(code, ..., retryable))
ErrorResponse(code, retryable) ==
  [status |-> ErrorStatusCode(code), code |-> code, retryable |-> retryable]

\* result.toTextStreamResponse()
StreamResponse == [status |-> 200, code |-> "", retryable |-> FALSE]

\* handleAPIError(err, context) for what the model call threw (parseError)
ModelErrorResponse(thrown) ==
  IF thrown = "rate limit" THEN ErrorResponse("RATE_LIMITED", TRUE)
  ELSE ErrorResponse("AGENT_FAILED", TRUE)

\* POST of /api/cross-examine: the response and the number of streamText calls
CrossExaminePOST(q) ==
  IF ~q.json THEN [resp |-> ErrorResponse("AGENT_FAILED", TRUE), modelCalls |-> 0]
  ELSE IF ~q.valid
    THEN [resp |-> ErrorResponse("INVALID_REQUEST", FALSE), modelCalls |-> 0]
  ELSE IF q.nOpp = 0
    THEN [resp |-> ErrorResponse("INVALID_REQUEST", FALSE), modelCalls |-> 0]
  ELSE IF ~(q.apiKey \/ q.envKey)
    THEN [resp |-> ErrorResponse("API_KEY_MISSING", FALSE), modelCalls |-> 0]
  ELSE IF q.model # "streams"
    THEN [resp |-> ModelErrorResponse(q.model), modelCalls |-> 1]
  ELSE [resp |-> StreamResponse, modelCalls |-> 1]

\* (mutant) the filter keeps every argument
OpponentArgs_All(advocateArgs, ownArg) == advocateArgs

\* advocateArgs.filter((a) => a.option !== ownArg.option)
OpponentArgs(advocateArgs, ownArg) ==
  SelectSeq(advocateArgs, LAMBDA a : a.option # ownArg.option)

\* The JSON body runCrossExaminers posts for advocateArgs[j]; advocateArgs is
\* the parameter of the phase, the same array for every request of it.
CrossExamBody(advocateArgs, j) ==
  LET ownArg == advocateArgs[j + 1]
  IN  [option |-> ownArg.option,
       ownArgument |-> ownArg,
       opponentArguments |-> OpponentArgs(advocateArgs, ownArg)]

\* What /api/cross-examine answers to the request for advocateArgs[j], the
\* client holding a key: `ok` tells whether the model call, if the route
\* makes it, streams to the end.
CrossExamineAnswer(advocateArgs, j, ok) ==
  CrossExaminePOST([api |-> "cross-examine", json |-> TRUE, valid |-> TRUE,
                    nArgs |-> 0, nCE |-> 0,
                    nOpp |-> Len(CrossExamBody(advocateArgs, j).opponentArguments),
                    apiKey |-> TRUE, envKey |-> FALSE,
                    model |-> IF ok THEN "streams" ELSE "fails",
                    output |-> None]).resp

\* The fetch of /api/cross-examine for advocateArgs[j] settles: with the
\* route's answer if nothing fails (`ok`), with a failure otherwise.
CrossExamSettles(j, ok) ==
  /\ run.pc = "crossExam" /\ Req("cross-examine", j) \in http
  /\ Answer(ok)
  /\ LET responses == PushCrossExam(run.ceResponses, run.advResponses[j + 1].option,
                                    CrossExamineAnswer(run.advResponses, j, ok).status = 200)
         h == http \ {Req("cross-examine", j)}
         r == [run EXCEPT !.ceResponses = responses]
     IN  IF ~PhaseBatchSettled(h, "cross-examine")
           THEN /\ run' = r
                /\ http' = h
                /\ UNCHANGED <<sessions, phase>>
           ELSE IF run.i + maxParallelism < Len(run.advResponses)
             THEN /\ run' = [r EXCEPT !.i = run.i + maxParallelism]
                  /\ http' = h \cup ChatBatch("cross-examine", Len(run.advResponses),
                                              run.i + maxParallelism)
                  /\ UNCHANGED <<sessions, phase>>
             ELSE runReferee(
                    WriteIf(sessions, run.sid, [crossExaminations |-> Some(responses)]),
                    r, h)
  /\ FanOutFrame

\* The RefereeResponse runReferee builds from the streamed text.
RefereeResult(plan) ==
  [summary |-> "text", scores |-> <<>>, recommendation |-> plan[1]]

\* /api/referee streams its answer to the end
RefereeSucceeds ==
  /\ run.pc = "referee" /\ Req("referee", 0) \in http
  /\ phase' = "complete"
  /\ sessions' = WriteIf(sessions, run.sid,
                         [result |-> Some(RefereeResult(run.plan)), status |-> "complete"])
  /\ isLoading' = FALSE
  /\ run' = IdleRun
  /\ http' = {}
  /\ UNCHANGED <<currentSessionId, nextUUID, maxParallelism, sessionId, error,
                 clarifications, clarificationAnswers, rounds, quota, execVars, utilVars>>

\* /api/referee answers with an error body
RefereeFails(e) ==
  /\ run.pc = "referee" /\ Req("referee", 0) \in http
  /\ handleError(run.sid, e, "Referee")
  /\ http' = {}
  /\ UNCHANGED <<currentSessionId, nextUUID, maxParallelism, sessionId,
                 clarifications, clarificationAnswers, rounds, quota, execVars, utilVars>>

\* A poll is answered; when every question has an answer the planner is
\* called again, by the callPlanner of the current render.
handleClarificationAnswer(q) ==
  /\ phase = "clarifying" /\ q \in clarifications
  /\ LET newAnswers == [k \in DOMAIN clarificationAnswers \cup {q} |->
                           IF k = q THEN rounds ELSE clarificationAnswers[k]]
     IN  /\ clarificationAnswers' = newAnswers
         /\ IF clarifications \subseteq DOMAIN newAnswers
              THEN callPlanner(sessionId,
                               IF HasSession(sessions, sessionId)
                                 THEN getSession(sessions, sessionId).query ELSE "",
                               newAnswers)
              ELSE UNCHANGED <<phase, isLoading, error, run, http>>
  /\ UNCHANGED <<sessions, currentSessionId, nextUUID, maxParallelism, sessionId,
                 clarifications, rounds, quota, execVars, utilVars>>

\* The "Start New Comparison" button
handleNewComparison ==
  /\ phase = "complete"
  /\ sessionId' = NoId
  /\ currentSessionId' = NoId
  /\ phase' = "input"
  /\ clarifications' = {}
  /\ clarificationAnswers' = NoAnswers
  /\ error' = None
  /\ isLoading' = FALSE
  /\ UNCHANGED <<sessions, nextUUID, maxParallelism, run, http, rounds, quota,
                 execVars, utilVars>>

\* One query followed through the pipeline: any maxParallelism setting, any
\* plan, any subset of failing per-option requests, any completion order.
\* One query, and every per-option request of its run may fail.
SpecQuota == [queries |-> 1, failures |-> 2 * MaxOptions, rounds |-> MaxRounds]

Init ==
  /\ ExecAtRest
  /\ UtilAtRest
  /\ \E mp \in 1 .. MaxParallelismSetting : StoresAsCreated(mp, SpecQuota)

PlannerAnswers ==
  \/ \E e \in Failures : PlannerFails(e)
  \/ \E n \in QuestionIds : PlannerAsks(1 .. n)
  \/ \E p \in PlanChoices : PlannerPlans(p)

FanOutAnswers ==
  \/ \E j \in 0 .. (MaxOptions - 1), ok \in BOOLEAN : AdvocateSettles(j, ok)
  \/ \E j \in 0 .. (MaxOptions - 1), ok \in BOOLEAN : CrossExamSettles(j, ok)

RefereeAnswers ==
  \/ RefereeSucceeds
  \/ \E e \in Failures : RefereeFails(e)

Next ==
  \/ \E q \in Queries : handleQuerySubmit(q)
  \/ PlannerAnswers
  \/ FanOutAnswers
  \/ RefereeAnswers
  \/ \E q \in QuestionIds : handleClarificationAnswer(q)

Spec == Init /\ [][Next]_vars

\* Queries, retries and new comparisons one after the other in one mounted
\* ComparisonChat, with the requests of a phase issued one at a time.
SessionsInit ==
  /\ ExecAtRest
  /\ UtilAtRest
  /\ StoresAsCreated(1, [queries |-> MaxSessions, failures |-> MaxFailures,
                         rounds |-> MaxRounds])

SessionsNext ==
  \/ Next
  \/ handleRetry
  \/ handleNewComparison

SessionsSpec == SessionsInit /\ [][SessionsNext]_vars


\* ------------------------------------------------------ claims: the pipeline
EntriesFor(responses, o) == {k \in DOMAIN responses : responses[k].option = o}
PositionsOf(plan, o) == {k \in DOMAIN plan : plan[k] = o}

\* The responses hold one entry for each position of the plan's options.
OnePerOption(responses, plan) ==
  /\ Len(responses) = Len(plan)
  /\ \A o \in {plan[k] : k \in DOMAIN plan} \cup {responses[k].option : k \in DOMAIN responses} :
       Cardinality(EntriesFor(responses, o)) = Cardinality(PositionsOf(plan, o))

\* C3: once runAdvocates has finished (the run is cross-examining or
\* refereeing), the responses it passed to runCrossExaminers hold exactly one
\* entry per option of the plan, failed requests included, and the session
\* the run writes to holds that same collection as its arguments.
C3_FanOutComplete ==
  run.pc \in {"crossExam", "referee"} =>
    /\ OnePerOption(run.advResponses, run.plan)
    /\ (run.sid # NoId /\ HasSession(sessions, run.sid)) =>
         getSession(sessions, run.sid).arguments = Some(run.advResponses)

\* Three options, two of them failed, settled out of plan order and stored.
C3_Witness ==
  /\ run.pc = "crossExam"
  /\ run.plan = <<"A", "B", "C">>
  /\ Len(run.advResponses) = 3
  /\ run.advResponses[1].option = "B"
  /\ Cardinality({k \in 1 .. 3 : run.advResponses[k].error}) = 2
  /\ run.sid # NoId
  /\ getSession(sessions, run.sid).arguments = Some(run.advResponses)

\* C4: while a cross-examine request is in flight no advocate request is,
\* and every advocate of the plan has left its response or placeholder;
\* while the referee request is in flight no advocate or cross-examine
\* request is, and every cross-examination has left its response.
C4_PhaseSequencing ==
  /\ Pending(http, "cross-examine") # {} =>
       /\ Pending(http, "advocate") = {}
       /\ Len(run.advResponses) = Len(run.plan)
  /\ Pending(http, "referee") # {} =>
       /\ Pending(http, "advocate") = {}
       /\ Pending(http, "cross-examine") = {}
       /\ Len(run.advResponses) = Len(run.plan)
       /\ Len(run.ceResponses) = Len(run.advResponses)

\* The first cross-examine batch of a three-option plan under maxParallelism 2,
\* issued after two advocate batches.
C4_Witness ==
  /\ maxParallelism = 2
  /\ Len(run.plan) = 3
  /\ Pending(http, "cross-examine") = {Req("cross-examine", 0), Req("cross-examine", 1)}
  /\ \E k \in 1 .. 3 : run.advResponses[k].error

NoSessionTurnsError ==
  \A x \in DOMAIN sessions : \A y \in DOMAIN sessions' :
    (sessions[x].id = sessions'[y].id /\ sessions'[y].status = "error")
      => sessions[x].status = "error"

\* C5: a step in which a per-option advocate or cross-examine request fails
\* leaves the component out of the error phase with no error set, turns no
\* session to error and keeps the run going; when it was the last request of
\* the fan-out phases, the run is at the referee.
C5_PerOptionFailuresAbsorbed ==
  [][quota'.failures # quota.failures =>
       /\ phase' # "error"
       /\ error' = error
       /\ NoSessionTurnsError
       /\ run'.pc \in {"advocates", "crossExam", "referee"}
       /\ (Pending(http', "advocate") \cup Pending(http', "cross-examine") = {})
            => (run'.pc = "referee" /\ phase' = "refereeing")]_vars

\* Every advocate and every cross-examiner of a three-option plan failed and
\* the run is at the referee, its session refereeing.
C5_Witness ==
  /\ run.pc = "referee"
  /\ Len(run.plan) = 3
  /\ \A k \in 1 .. 3 : run.advResponses[k].error /\ run.ceResponses[k].error
  /\ run.sid # NoId
  /\ getSession(sessions, run.sid).status = "refereeing"
  /\ phase = "refereeing"

\* The edges of the pipeline state machine.
StateMachineEdges ==
  { <<"pending", "planning">>, <<"planning", "advocating">>,
    <<"advocating", "cross-examining">>, <<"cross-examining", "refereeing">>,
    <<"refereeing", "complete">>, <<"planning", "error">>,
    <<"advocating", "error">>, <<"cross-examining", "error">>,
    <<"refereeing", "error">> }

\* C8: in every step, a session whose stored status changes goes along an
\* edge of the state machine (pending to planning, planning to advocating,
\* ..., a running status to error).
C8_StatusFollowsEdges ==
  [][\A x \in DOMAIN sessions : \A y \in DOMAIN sessions' :
       (sessions[x].id = sessions'[y].id /\ sessions[x].status # sessions'[y].status)
         => <<sessions[x].status, sessions'[y].status>> \in StateMachineEdges]_vars

\* C9: in every step, a session whose status is complete or error keeps it.
C9_TerminalStatusKept ==
  [][\A x \in DOMAIN sessions : \A y \in DOMAIN sessions' :
       (sessions[x].id = sessions'[y].id /\ sessions[x].status \in {"complete", "error"})
         => sessions'[y].status = sessions[x].status]_vars

\* A step of handleError that reaches markSessionError for a stored session.
HandleErrorStep ==
  /\ run.pc \in {"planner", "referee"}
  /\ phase' = "error"
  /\ run.sid # NoId /\ HasSession(sessions, run.sid)

\* C10: the step that marks a session as failed leaves it with status error
\* and the message, and with the plan, arguments, crossExaminations and
\* result it had; every other session is as it was.
C10_MarkSessionErrorKeepsResults ==
  [][HandleErrorStep =>
       /\ HasSession(sessions', run.sid)
       /\ LET before == getSession(sessions, run.sid)
              after == getSession(sessions', run.sid)
          IN  /\ after.status = "error"
              /\ after.error = Some(error'[1].code)
              /\ after.plan = before.plan
              /\ after.arguments = before.arguments
              /\ after.crossExaminations = before.crossExaminations
              /\ after.result = before.result
              /\ after.query = before.query
       /\ \A x \in DOMAIN sessions :
            sessions[x].id # run.sid => sessions'[x] = sessions[x]]_vars

\* A session failed at the referee, after the Advocate phase: status error,
\* the plan and one argument per option still stored.
C10_Witness ==
  /\ phase = "error"
  /\ error # None /\ error[1].context = "Referee"
  /\ \E x \in DOMAIN sessions :
       /\ sessions[x].status = "error"
       /\ sessions[x].error # None
       /\ sessions[x].plan = Some(<<"A", "B", "C">>)
       /\ sessions[x].arguments # None
       /\ Len(sessions[x].arguments[1]) = 3
       /\ sessions[x].crossExaminations # None
       /\ sessions[x].result = None

\* The session createSession made for the query of the latest submission:
\* handleQuerySubmit puts its id in the component's sessionId state.
SessionOfQuery == getSession(sessions, sessionId)

\* C11: when the component is in the error phase after a failed planner or
\* referee call, the session created for the query has status error and a
\* stored error message.
C11_FatalFailureMarksSession ==
  (phase = "error" /\ error # None /\ error[1].context \in {"Planner", "Referee"}) =>
    /\ HasSession(sessions, sessionId)
    /\ SessionOfQuery.status = "error"
    /\ SessionOfQuery.error # None

\* C12: when a run in which no per-option request failed has completed, the
\* session created for the query has status complete and its plan, arguments,
\* crossExaminations and result are set.
C12_SuccessfulRunCompletesSession ==
  (phase = "complete" /\ quota.failures = 2 * MaxOptions) =>
    /\ HasSession(sessions, sessionId)
    /\ SessionOfQuery.status = "complete"
    /\ SessionOfQuery.plan # None
    /\ SessionOfQuery.arguments # None
    /\ SessionOfQuery.crossExaminations # None
    /\ SessionOfQuery.result # None

\* C13: in every step, a stored session whose record changes is the session
\* created for the query of the run in progress.
C13_WritesTargetOwnSession ==
  [][\A x \in DOMAIN sessions : \A y \in DOMAIN sessions' :
       (sessions[x].id = sessions'[y].id /\ sessions[x] # sessions'[y])
         => sessions[x].id = sessionId]_vars

\* C14: the advocate responses passed to runCrossExaminers, and the
\* cross-examination responses passed to runReferee, list the options in the
\* order of the plan's options.
C14_ResponsesInPlanOrder ==
  /\ run.pc \in {"crossExam", "referee"} =>
       /\ Len(run.advResponses) = Len(run.plan)
       /\ \A k \in DOMAIN run.plan : run.advResponses[k].option = run.plan[k]
  /\ run.pc = "referee" =>
       /\ Len(run.ceResponses) = Len(run.plan)
       /\ \A k \in DOMAIN run.plan : run.ceResponses[k].option = run.plan[k]

\* ---------------------------------------- the body of a cross-examine request
\* C15: every cross-examine request in flight carries, as ownArgument, the
\* advocate result of its option and, as opponentArguments, the advocate
\* results of exactly the other options of the plan: none of its own option,
\* and for each other option as many results as the plan has positions for it.
C15_CrossExamInputs ==
  \A r \in Pending(http, "cross-examine") :
    LET body == CrossExamBody(run.advResponses, r.idx)
        o == body.option
        others == {run.plan[k] : k \in DOMAIN run.plan} \ {o}
    IN  /\ o \in {run.plan[k] : k \in DOMAIN run.plan}
        /\ body.ownArgument.option = o
        /\ body.ownArgument = run.advResponses[r.idx + 1]
        /\ EntriesFor(body.opponentArguments, o) = {}
        /\ {body.opponentArguments[k].option : k \in DOMAIN body.opponentArguments} = others
        /\ \A p \in others :
             /\ Cardinality(EntriesFor(body.opponentArguments, p))
                  = Cardinality(PositionsOf(run.plan, p))
             /\ \A k \in EntriesFor(body.opponentArguments, p) :
                  \E n \in DOMAIN run.advResponses :
                    run.advResponses[n] = body.opponentArguments[k]

\* The request for B of the plan A, B, C is in flight; A's advocate failed, so
\* one of the two opponent arguments is a placeholder.
C15_Witness ==
  /\ run.pc = "crossExam"
  /\ run.plan = <<"A", "B", "C">>
  /\ \E r \in Pending(http, "cross-examine") :
       LET body == CrossExamBody(run.advResponses, r.idx)
       IN  /\ body.option = "B"
           /\ Len(body.opponentArguments) = 2
           /\ \E k \in 1 .. 2 : /\ body.opponentArguments[k].option = "A"
                                /\ body.opponentArguments[k].error

\* ------------------------------------------------------------ /api/referee
\* The requests the route may receive: whether the body is JSON, whether it
\* passes the schema, the sizes of its two collections, the keys in the body
\* and in the environment, and what the model call does.
RefereeRequests ==
  { q \in [json : BOOLEAN, valid : BOOLEAN, nArgs : 0 .. MaxOptions,
           nCE : 0 .. MaxOptions, apiKey : BOOLEAN, envKey : BOOLEAN,
           model : {"streams", "rate limit", "fails"}] :
      (~q.json) => (~q.valid /\ q.nArgs = 0 /\ q.nCE = 0 /\ ~q.apiKey) }

\* (mutant) the crossExaminations check is missing
RefereePOST_NoCrossExamCheck(q) ==
  IF ~q.json THEN [resp |-> ErrorResponse("AGENT_FAILED", TRUE), modelCalls |-> 0]
  ELSE IF ~q.valid
    THEN [resp |-> ErrorResponse("INVALID_REQUEST", FALSE), modelCalls |-> 0]
  ELSE IF q.nArgs = 0
    THEN [resp |-> ErrorResponse("INVALID_REQUEST", FALSE), modelCalls |-> 0]
  ELSE IF ~(q.apiKey \/ q.envKey)
    THEN [resp |-> ErrorResponse("API_KEY_MISSING", FALSE), modelCalls |-> 0]
  ELSE IF q.model # "streams"
    THEN [resp |-> ModelErrorResponse(q.model), modelCalls |-> 1]
  ELSE [resp |-> StreamResponse, modelCalls |-> 1]

\* POST of /api/referee: the response and the number of streamText calls
RefereePOST(q) ==
  IF ~q.json THEN [resp |-> ErrorResponse("AGENT_FAILED", TRUE), modelCalls |-> 0]
  ELSE IF ~q.valid
    THEN [resp |-> ErrorResponse("INVALID_REQUEST", FALSE), modelCalls |-> 0]
  ELSE IF q.nArgs = 0
    THEN [resp |-> ErrorResponse("INVALID_REQUEST", FALSE), modelCalls |-> 0]
  ELSE IF q.nCE = 0
    THEN [resp |-> ErrorResponse("INVALID_REQUEST", FALSE), modelCalls |-> 0]
  ELSE IF ~(q.apiKey \/ q.envKey)
    THEN [resp |-> ErrorResponse("API_KEY_MISSING", FALSE), modelCalls |-> 0]
  ELSE IF q.model # "streams"
    THEN [resp |-> ModelErrorResponse(q.model), modelCalls |-> 1]
  ELSE [resp |-> StreamResponse, modelCalls |-> 1]

\* The route handles the request it received.
RefereeHandles ==
  /\ route.pc = "received"
  /\ LET out == RefereePOST(route.req[1])
     IN  route' = [route EXCEPT !.pc = "answered", !.resp = Some(out.resp),
                                !.modelCalls = out.modelCalls]
  /\ UNCHANGED <<execVars, storeVars, chatVars, retry, tool>>

RouteInit ==
  /\ ExecAtRest
  /\ StoresAsCreated(2, [queries |-> 0, failures |-> 0, rounds |-> 0])
  /\ retry = IdleRetry
  /\ tool = IdleTool
  /\ \E q \in RefereeRequests : route = [IdleRoute EXCEPT !.pc = "received", !.req = Some(q)]

RouteNext == RefereeHandles

RouteSpec == RouteInit /\ [][RouteNext]_vars

\* C17: a request to /api/referee whose arguments or whose crossExaminations
\* are empty is answered 400 INVALID_REQUEST, not retryable, and streamText
\* was not called for it.
C17_RefereeRejectsEmptyInput ==
  (route.pc = "answered" /\ route.req[1].json
     /\ (route.req[1].nArgs = 0 \/ route.req[1].nCE = 0)) =>
    /\ route.resp = Some([status |-> 400, code |-> "INVALID_REQUEST", retryable |-> FALSE])
    /\ route.modelCalls = 0

\* A well-formed request with two arguments, no cross-examination and a key
\* was rejected.
C17_Witness ==
  /\ route.pc = "answered"
  /\ route.req[1].valid /\ route.req[1].apiKey /\ route.req[1].model = "streams"
  /\ route.req[1].nArgs = 2 /\ route.req[1].nCE = 0
  /\ route.resp[1].status = 400
  /\ route.modelCalls = 0

\* --------------------------------- the phase functions called on their own
\* Advocate responses for the options of a plan, those at `placeholders` being placeholders.
ResponsesFor(plan, placeholders) ==
  [k \in DOMAIN plan |-> [option |-> plan[k], error |-> k \in placeholders]]

\* runCrossExaminers(plan, advocateArgs) or runReferee(plan, advocateArgs,
\* crossExams) is about to be called, with every or with no advocate argument
\* and every or no cross-examination, by a closure that holds the session's
\* id or none.
PhaseInit ==
  /\ ExecAtRest
  /\ UtilAtRest
  /\ \E mp \in 1 .. MaxParallelismSetting, plan \in PlanChoices,
        placeholders \in SUBSET (1 .. MaxOptions), sid \in {NoId, 1},
        entry \in {"enterCrossExam", "enterReferee"}, noArgs \in BOOLEAN, noCE \in BOOLEAN :
       LET args == IF noArgs THEN <<>> ELSE ResponsesFor(plan, placeholders)
           ces == IF entry = "enterCrossExam" \/ noCE THEN <<>> ELSE ResponsesFor(plan, {})
       IN  /\ placeholders \subseteq DOMAIN plan
           /\ entry = "enterCrossExam" => ~noCE
           /\ sessions = << Spread(NewSession(1, "q1"),
                                   [status |-> IF entry = "enterCrossExam"
                                                 THEN "advocating" ELSE "cross-examining",
                                    plan |-> Some(plan), arguments |-> Some(args),
                                    crossExaminations |->
                                      IF entry = "enterCrossExam" THEN None ELSE Some(ces)]) >>
           /\ run = [IdleRun EXCEPT !.pc = entry, !.sid = sid, !.query = "q1", !.plan = plan,
                                    !.advResponses = args, !.ceResponses = ces]
           /\ maxParallelism = mp
  /\ currentSessionId = 1
  /\ nextUUID = 2
  /\ sessionId = 1
  /\ phase = "advocating"
  /\ isLoading = TRUE
  /\ error = None
  /\ clarifications = {}
  /\ clarificationAnswers = NoAnswers
  /\ http = {}
  /\ rounds = 0
  /\ quota = [queries |-> 0, failures |-> MaxOptions, rounds |-> 0]

\* runCrossExaminers is called
EnterCrossExaminers ==
  /\ run.pc = "enterCrossExam"
  /\ runCrossExaminers(sessions, run, http)
  /\ FanOutFrame
  /\ UNCHANGED quota

\* runReferee is called
EnterReferee ==
  /\ run.pc = "enterReferee"
  /\ runReferee(sessions, run, http)
  /\ FanOutFrame
  /\ UNCHANGED quota

\* /api/referee answers the request runReferee posted.
RefereeResponds(key, model) ==
  /\ run.pc = "referee"
  /\ LET out == RefereePOST([json |-> TRUE, valid |-> TRUE,
                             nArgs |-> Len(run.advResponses),
                             nCE |-> Len(run.ceResponses),
                             apiKey |-> key, envKey |-> FALSE, model |-> model])
     IN  IF out.resp.status = 200
           THEN RefereeSucceeds
           ELSE RefereeFails([code |-> out.resp.code, retryable |-> out.resp.retryable])

PhaseNext ==
  \/ EnterCrossExaminers
  \/ EnterReferee
  \/ \E j \in 0 .. (MaxOptions - 1), ok \in BOOLEAN : CrossExamSettles(j, ok)
  \/ \E key \in BOOLEAN, model \in {"streams", "rate limit", "fails"} :
       RefereeResponds(key, model)

PhaseSpec == PhaseInit /\ [][PhaseNext]_vars

\* C16: the step in which runCrossExaminers is called with no advocate
\* argument ends the run in the error phase: no referee request is issued,
\* no crossExaminations are stored, and the session the run writes to has
\* status error.
C16_CrossExamineFailsFastOnEmpty ==
  [][(run.pc = "enterCrossExam" /\ Len(run.advResponses) = 0) =>
       /\ phase' = "error"
       /\ run'.pc = "idle"
       /\ Pending(http', "referee") = {}
       /\ run.sid # NoId =>
            /\ getSession(sessions', run.sid).status = "error"
            /\ getSession(sessions', run.sid).crossExaminations = None]_vars

\* ---------------------------------------------------------------- withRetry
\* Error messages, as the words they are made of.
Messages ==
  { <<"timeout">>, <<"ECONNRESET">>, <<"503", "service", "unavailable">>,
    <<"invalid", "input">> }

\* What fn may throw: an Error or another value, with its text; `call` is the
\* call of fn that threw it.
Throwable(isError, message, call) ==
  [isError |-> isError, message |-> message, call |-> call, wrapped |-> FALSE]

\* message.toLowerCase(), word by word
ToLowerCase(message) ==
  [k \in DOMAIN message |-> IF message[k] = "ECONNRESET" THEN "econnreset" ELSE message[k]]

\* The patterns of isRetryableError that are one word; those of several words
\* ("rate limit", "socket hang up", ...) occur in no message of Messages.
RetryablePatterns ==
  {"timeout", "network", "econnreset", "econnrefused", "503", "429", "500", "502", "504"}

\* isRetryableError(error)
isRetryableError(e) ==
  /\ e.isError
  /\ \E k \in DOMAIN e.message : ToLowerCase(e.message)[k] \in RetryablePatterns

\* isRetryable(error) with the option withRetry was given
Classify(r, e) ==
  CASE r.isRetryable = "default" -> isRetryableError(e)
    [] r.isRetryable = "never" -> FALSE
    [] r.isRetryable = "always" -> TRUE

\* error instanceof Error ? error : new Error(String(error))
ToError(e) ==
  IF e.isError THEN e ELSE [e EXCEPT !.isError = TRUE, !.wrapped = TRUE]

\* new Error("Unknown error"), the initial lastError
UnknownError ==
  [isError |-> TRUE, message |-> <<"Unknown", "error">>, call |-> 0, wrapped |-> FALSE]

\* What the onRetry callback throws when it throws.
CallbackError ==
  [isError |-> TRUE, message |-> <<"onRetry">>, call |-> 0, wrapped |-> FALSE]

\* withRetry(fn, options) up to its first `await fn()`
StartRetry(fn, maxRetries, isRetryable, onRetry) ==
  [IdleRetry EXCEPT !.pc = "loop", !.fn = fn, !.maxRetries = maxRetries,
                    !.isRetryable = isRetryable, !.onRetry = onRetry,
                    !.lastError = Some(UnknownError)]

\* (mutant) the loop test is attempt < maxRetries
LoopTest_OffByOne(r) == r.attempt < r.maxRetries

\* attempt <= maxRetries
LoopTest(r) == r.attempt <= r.maxRetries

\* One iteration of the loop: fn() resolves with `value` or throws `e`.
RetryIteration(r, ok, value, e) ==
  IF ok
    THEN [r EXCEPT !.pc = "resolved", !.settled = Some(value),
                   !.fnCalls = Append(@, [ok |-> TRUE, value |-> value])]
    ELSE LET r1 == [r EXCEPT !.lastError = Some(ToError(e)),
                             !.fnCalls = Append(@, [ok |-> FALSE, error |-> e])]
             shouldRetry == r.attempt < r.maxRetries /\ Classify(r, e)
         IN  IF ~shouldRetry
               THEN [r1 EXCEPT !.pc = "rejected", !.settled = Some(ToError(e))]
               ELSE IF r.onRetry = "throws"
                 THEN [r1 EXCEPT !.pc = "rejected", !.settled = Some(CallbackError)]
                 ELSE [r1 EXCEPT !.pc = "sleeping"]

\* What the search provider answers with: up to MaxResults results, each with
\* or without a title, and without text or with a text of some length.
RawResults == [title : {None, Some("T")}, url : {"u"}, text : {None, Some(1000), Some(2000)}]

ProviderResponses ==
  UNION { [1 .. n -> RawResults] : n \in 0 .. MaxResults }

\* response.results.map(...): title ?? "Untitled", text?.slice(0, 1500) ?? ""
MapResults(response) ==
  [k \in DOMAIN response |->
     [title |-> IF response[k].title = None THEN "Untitled" ELSE response[k].title[1],
      url |-> response[k].url,
      content |-> IF response[k].text = None THEN 0
                  ELSE IF response[k].text[1] > 1500 THEN 1500 ELSE response[k].text[1]]]

\* What a call of fn may resolve with.
FnValues(fn) ==
  IF fn = "exa" THEN {MapResults(resp) : resp \in ProviderResponses} ELSE {"success"}

\* The loop body runs: fn is called and resolves or throws.
RetryCallFn ==
  /\ retry.pc = "loop"
  /\ LoopTest(retry)
  /\ \/ \E v \in FnValues(retry.fn) :
          retry' = RetryIteration(retry, TRUE, v, UnknownError)
     \/ \E isError \in BOOLEAN, m \in Messages :
          retry' = RetryIteration(retry, FALSE, "",
                                  Throwable(isError, m, Len(retry.fnCalls) + 1))
  /\ UNCHANGED <<execVars, storeVars, chatVars, route, tool>>

\* `await sleep(delay)` is over: attempt++
RetryWake ==
  /\ retry.pc = "sleeping"
  /\ retry' = [retry EXCEPT !.pc = "loop", !.attempt = @ + 1]
  /\ UNCHANGED <<execVars, storeVars, chatVars, route, tool>>

\* The loop test fails: `throw lastError` after the loop
RetryLoopExit ==
  /\ retry.pc = "loop"
  /\ ~LoopTest(retry)
  /\ retry' = [retry EXCEPT !.pc = "rejected", !.settled = retry.lastError]
  /\ UNCHANGED <<execVars, storeVars, chatVars, route, tool>>

\* withRetry has been called with any options.
RetryInit ==
  /\ ExecAtRest
  /\ StoresAsCreated(2, [queries |-> 0, failures |-> 0, rounds |-> 0])
  /\ route = IdleRoute
  /\ tool = IdleTool
  /\ \E mr \in -1 .. MaxRetries, c \in {"default", "never", "always"},
        cb \in {"none", "returns", "throws"} :
       retry = StartRetry("fn", mr, c, cb)

RetryNext ==
  \/ RetryCallFn
  \/ RetryWake
  \/ RetryLoopExit

RetrySpec == RetryInit /\ [][RetryNext]_vars

\* The calls of fn withRetry has made, and the last one.
NumCalls == Len(retry.fnCalls)
LastCall == retry.fnCalls[NumCalls]

searchRetry_NoRetry(fn) == StartRetry(fn, 0, "default", "none")

\* searchRetry = createRetryWrapper({ maxRetries: 1, ... })
searchRetry(fn) == StartRetry(fn, 1, "default", "none")

\* (mutant) execute has no catch around the retry wrapper
ToolOutcome_NoCatch(t, r) ==
  IF r.pc = "resolved"
    THEN [t EXCEPT !.pc = "returned", !.returned = r.settled]
    ELSE [t EXCEPT !.pc = "threw"]

\* `const results = await searchRetry(...); return results` and the catch
\* block's `return []`
ToolOutcome(t, r) ==
  IF r.pc = "resolved"
    THEN [t EXCEPT !.pc = "returned", !.returned = r.settled]
    ELSE [t EXCEPT !.pc = "returned", !.returned = Some(<<>>)]

\* execute({ query }) up to its first await
ToolExecute ==
  /\ tool.pc = "called"
  /\ IF ~tool.apiKey
       THEN /\ tool' = [tool EXCEPT !.pc = "returned", !.returned = Some(<<>>)]
            /\ UNCHANGED retry
       ELSE /\ tool' = [tool EXCEPT !.pc = "awaiting"]
            /\ retry' = searchRetry("exa")
  /\ UNCHANGED <<execVars, storeVars, chatVars, route>>

\* The promise of searchRetry settles and execute returns.
ToolSettles ==
  /\ tool.pc = "awaiting"
  /\ retry.pc \in {"resolved", "rejected"}
  /\ tool' = ToolOutcome(tool, retry)
  /\ UNCHANGED <<execVars, storeVars, chatVars, route, retry>>

\* The tool was created with or without a resolved API key and execute is called.
ToolInit ==
  /\ ExecAtRest
  /\ StoresAsCreated(2, [queries |-> 0, failures |-> 0, rounds |-> 0])
  /\ route = IdleRoute
  /\ retry = IdleRetry
  /\ \E key \in BOOLEAN : tool = [IdleTool EXCEPT !.pc = "called", !.apiKey = key]

ToolNext ==
  \/ ToolExecute
  \/ RetryCallFn
  \/ RetryWake
  \/ ToolSettles

ToolSpec == ToolInit /\ [][ToolNext]_vars

\* C18: execute never throws, and it returns the empty list when the API key
\* is missing (without calling the provider) and when searchRetry rejected,
\* that is when every call the wrapper made failed.
C18_ToolNeverThrows ==
  /\ tool.pc \in {"called", "awaiting", "returned"}
  /\ tool.pc = "returned" =>
       /\ tool.returned # None
       /\ ~tool.apiKey => (tool.returned = Some(<<>>) /\ NumCalls = 0)
       /\ (tool.apiKey /\ ~LastCall.ok) =>
            /\ tool.returned = Some(<<>>)
            /\ \A k \in 1 .. NumCalls : ~retry.fnCalls[k].ok

\* Both calls of the provider failed, the second one after a retry, and
\* execute returned the empty list.
C18_Witness ==
  /\ tool.pc = "returned" /\ tool.apiKey
  /\ NumCalls = 2
  /\ ~retry.fnCalls[1].ok /\ ~retry.fnCalls[2].ok
  /\ retry.pc = "rejected"
  /\ tool.returned = Some(<<>>)

\* A failure of the kinds the retry wrapper is for: a timeout, a connection
\* reset, a 5xx, raised as an Error.
TransientFailure(e) ==
  /\ e.isError
  /\ \E k \in DOMAIN e.message : e.message[k] \in {"timeout", "ECONNRESET", "503"}

\* C20: when execute has returned after a first provider call that failed
\* transiently, a second call was made, and if that one succeeded with a
\* non-empty list execute returned that list; an execute whose first call
\* succeeded returned the list of the first call: the same list for the same
\* provider answer.
C20_RetryIdempotence ==
  tool.pc = "returned" /\ tool.apiKey =>
    /\ (~retry.fnCalls[1].ok /\ TransientFailure(retry.fnCalls[1].error)) =>
         /\ NumCalls = 2
         /\ retry.fnCalls[2].ok => tool.returned = Some(retry.fnCalls[2].value)
    /\ retry.fnCalls[1].ok =>
         /\ NumCalls = 1
         /\ tool.returned = Some(retry.fnCalls[1].value)

\* The first call timed out, the retry answered two results, one without a
\* title and one with a long text, and execute returned them as mapped.
C20_Witness ==
  /\ tool.pc = "returned" /\ tool.apiKey
  /\ NumCalls = 2
  /\ ~retry.fnCalls[1].ok /\ retry.fnCalls[1].error.message = <<"timeout">>
  /\ retry.fnCalls[2].ok
  /\ tool.returned =
       Some(MapResults(<< [title |-> None, url |-> "u", text |-> Some(1000)],
                          [title |-> Some("T"), url |-> "u", text |-> Some(2000)] >>))
  /\ tool.returned[1][1].title = "Untitled"
  /\ tool.returned[1][2].content = 1500

\* ------------------------------------------- the four phase entry points
Apis == {"planner", "advocate", "cross-examine", "referee"}

\* ComparisonPlanSchema.axes, as the sequence of the axes' indices
AxesChoices == { [k \in 1 .. n |-> k] : n \in 0 .. MaxAxes }

\* The values of ComparisonPlanSchema the planner model may produce: up to
\* three options, any number of axes, any assignments (given by their options).
PlanOutputs ==
  [options : PlanChoices \cup {<<>>}, axes : AxesChoices,
   assignments : PlanChoices \cup {<<>>}]

\* The values of PlannerOutputSchema: both `plan` and `clarifications` are
\* optional whatever `needsClarification` says.
PlannerOutputs ==
  [needsClarification : BOOLEAN,
   clarifications : {None} \cup { Some(1 .. n) : n \in 0 .. MaxQuestions },
   plan : {None} \cup { Some(p) : p \in PlanOutputs }]

\* The bodies a route may receive: not JSON, JSON that fails the route's
\* schema, or a value of the schema with the sizes of its collections.
Bodies(api) ==
  LET body(json, valid, nArgs, nCE, nOpp) ==
        [json |-> json, valid |-> valid, nArgs |-> nArgs, nCE |-> nCE, nOpp |-> nOpp]
  IN  {body(FALSE, FALSE, 0, 0, 0), body(TRUE, FALSE, 0, 0, 0)} \cup
      CASE api = "cross-examine" ->
             { body(TRUE, TRUE, 0, 0, n) : n \in 0 .. (MaxOptions - 1) }
        [] api = "referee" ->
             { body(TRUE, TRUE, a, c, 0) : a \in 0 .. MaxOptions, c \in 0 .. MaxOptions }
        [] OTHER -> { body(TRUE, TRUE, 0, 0, 0) }

\* What the model call of a route does when it is made: streamText streams,
\* generateText returns a result with an output or with none, or either throws.
ModelBehaviours(api) ==
  { [model |-> m, output |-> None] : m \in {"streams", "rate limit", "fails"} } \cup
  IF api = "planner"
    THEN { [model |-> "streams", output |-> Some(o)] : o \in PlannerOutputs }
    ELSE {}

\* The requests the four routes may receive.
EntryRequests ==
  LET all == UNION { { [api |-> api, json |-> b.json, valid |-> b.valid,
                        nArgs |-> b.nArgs, nCE |-> b.nCE, nOpp |-> b.nOpp,
                        apiKey |-> k.apiKey, envKey |-> k.envKey,
                        model |-> m.model, output |-> m.output] :
                         b \in Bodies(api),
                         k \in [apiKey : BOOLEAN, envKey : BOOLEAN],
                         m \in ModelBehaviours(api) } : api \in Apis }
  IN  { q \in all : q.apiKey => q.json }

\* Response.json({ plan }) / Response.json({ clarifications })
JsonResponse(plan, questions) ==
  [status |-> 200, code |-> "", retryable |-> FALSE, plan |-> plan,
   clarifications |-> questions]

\* POST of /api/planner from `const output = result.output` on
PlannerReturn(output) ==
  IF output = None THEN ErrorResponse("AGENT_FAILED", TRUE)
  ELSE LET o == output[1]
       IN  IF o.needsClarification /\ o.clarifications # None
                /\ Cardinality(o.clarifications[1]) # 0
             THEN JsonResponse(None, o.clarifications)
           ELSE IF o.plan # None
             THEN IF Len(o.plan[1].options) = 0
                    THEN ErrorResponse("AGENT_FAILED", TRUE)
                    ELSE JsonResponse(o.plan, None)
           ELSE ErrorResponse("AGENT_FAILED", TRUE)

\* POST of /api/planner: the response and the number of generateText calls
PlannerPOST(q) ==
  IF ~q.json THEN [resp |-> ErrorResponse("AGENT_FAILED", TRUE), modelCalls |-> 0]
  ELSE IF ~q.valid
    THEN [resp |-> ErrorResponse("INVALID_REQUEST", FALSE), modelCalls |-> 0]
  ELSE IF ~(q.apiKey \/ q.envKey)
    THEN [resp |-> ErrorResponse("API_KEY_MISSING", FALSE), modelCalls |-> 0]
  ELSE IF q.model # "streams"
    THEN [resp |-> ModelErrorResponse(q.model), modelCalls |-> 1]
  ELSE [resp |-> PlannerReturn(q.output), modelCalls |-> 1]

\* POST of /api/advocate: the response and the number of streamText calls
AdvocatePOST(q) ==
  IF ~q.json THEN [resp |-> ErrorResponse("AGENT_FAILED", TRUE), modelCalls |-> 0]
  ELSE IF ~q.valid
    THEN [resp |-> ErrorResponse("INVALID_REQUEST", FALSE), modelCalls |-> 0]
  ELSE IF ~(q.apiKey \/ q.envKey)
    THEN [resp |-> ErrorResponse("API_KEY_MISSING", FALSE), modelCalls |-> 0]
  ELSE IF q.model # "streams"
    THEN [resp |-> ModelErrorResponse(q.model), modelCalls |-> 1]
  ELSE [resp |-> StreamResponse, modelCalls |-> 1]

\* The route `api` handles the request it received.
Answered(out) ==
  /\ route' = [route EXCEPT !.pc = "answered", !.resp = Some(out.resp),
                            !.modelCalls = out.modelCalls]
  /\ UNCHANGED <<execVars, storeVars, chatVars, retry, tool>>

PlannerHandles ==
  /\ route.pc = "received" /\ route.req[1].api = "planner"
  /\ Answered(PlannerPOST(route.req[1]))

AdvocateHandles ==
  /\ route.pc = "received" /\ route.req[1].api = "advocate"
  /\ Answered(AdvocatePOST(route.req[1]))

CrossExamineHandles ==
  /\ route.pc = "received" /\ route.req[1].api = "cross-examine"
  /\ Answered(CrossExaminePOST(route.req[1]))

RefereeEntryHandles ==
  /\ route.pc = "received" /\ route.req[1].api = "referee"
  /\ RefereeHandles

EntryInit ==
  /\ ExecAtRest
  /\ StoresAsCreated(2, [queries |-> 0, failures |-> 0, rounds |-> 0])
  /\ retry = IdleRetry
  /\ tool = IdleTool
  /\ \E q \in EntryRequests : route = [IdleRoute EXCEPT !.pc = "received", !.req = Some(q)]

EntryNext ==
  \/ PlannerHandles
  \/ AdvocateHandles
  \/ CrossExamineHandles
  \/ RefereeEntryHandles

EntrySpec == EntryInit /\ [][EntryNext]_vars

\* A request the route rejects as input: the body is not JSON, fails the
\* schema, or carries an empty collection the route requires to be non-empty.
Malformed(q) ==
  \/ ~q.json
  \/ ~q.valid
  \/ q.api = "cross-examine" /\ q.nOpp = 0
  \/ q.api = "referee" /\ (q.nArgs = 0 \/ q.nCE = 0)

\* C21: each of the four routes calls the model only for a request that is
\* well formed and has a credential (in the body or in the environment); a
\* malformed request is answered 400 INVALID_REQUEST and a well-formed one
\* with no credential 401 API_KEY_MISSING, both with retryable = false.
C21_EntryPointsValidateFirst ==
  route.pc = "answered" =>
    LET q == route.req[1]
        r == route.resp[1]
    IN  /\ route.modelCalls > 0 => (~Malformed(q) /\ (q.apiKey \/ q.envKey))
        /\ Malformed(q) =>
             (r.status = 400 /\ r.code = "INVALID_REQUEST" /\ ~r.retryable)
        /\ (~Malformed(q) /\ ~(q.apiKey \/ q.envKey)) =>
             (r.status = 401 /\ r.code = "API_KEY_MISSING" /\ ~r.retryable)

\* The plan a planner call returned, if it returned one.
ReturnedPlan ==
  IF route.pc = "answered" /\ route.req[1].api = "planner" /\ route.resp[1].status = 200
    THEN route.resp[1].plan
    ELSE None

\* A plan with 1 to 3 distinct options, at least one axis and exactly one
\* assignment for each option.
WellFormedPlan(p) ==
  /\ Len(p.options) \in 1 .. MaxOptions
  /\ \A i, j \in DOMAIN p.options : p.options[i] = p.options[j] => i = j
  /\ Len(p.axes) >= 1
  /\ Len(p.assignments) = Len(p.options)
  /\ \A i \in DOMAIN p.options :
       Cardinality({k \in DOMAIN p.assignments : p.assignments[k] = p.options[i]}) = 1

\* C22: a plan returned by /api/planner has between 1 and 3 options, none of
\* them twice, at least one axis, and exactly one assignment per option.
C22_ReturnedPlanWellFormed ==
  ReturnedPlan # None => WellFormedPlan(ReturnedPlan[1])

\* (a) of C24: the output asks for clarification and has a question
AsksForClarification(o) ==
  o.needsClarification /\ o.clarifications # None /\ Cardinality(o.clarifications[1]) >= 1

\* (b) of C24: the output does not ask for clarification and has a plan with
\* an option, an axis and one assignment per option
CarriesUsablePlan(o) ==
  /\ ~o.needsClarification
  /\ o.plan # None
  /\ Len(o.plan[1].options) >= 1
  /\ Len(o.plan[1].axes) >= 1
  /\ \A i \in DOMAIN o.plan[1].options :
       Cardinality({k \in DOMAIN o.plan[1].assignments :
                      o.plan[1].assignments[k] = o.plan[1].options[i]}) = 1

\* C24: when generateText returned and its output is neither (a) nor (b),
\* /api/planner answers with a failure, not with a plan and not with
\* clarification questions.
C24_UnusableOutputFails ==
  (/\ route.pc = "answered" /\ route.req[1].api = "planner"
   /\ route.modelCalls = 1 /\ route.req[1].model = "streams"
   /\ \/ route.req[1].output = None
      \/ /\ ~AsksForClarification(route.req[1].output[1])
         /\ ~CarriesUsablePlan(route.req[1].output[1]))
    => route.resp[1].status # 200

\* ------------------------------------------------ clarification rounds
\* One query with maxParallelism 1 and no failing per-option request; the
\* planner may ask for clarification once more than in Spec.
ClarifyInit ==
  /\ ExecAtRest
  /\ UtilAtRest
  /\ StoresAsCreated(1, [queries |-> 1, failures |-> 0, rounds |-> MaxRounds + 1])

ClarifySpec == ClarifyInit /\ [][Next]_vars

\* The pending questions that have an answer given in the current round.
AnsweredNow(answers) ==
  {q \in clarifications : q \in DOMAIN answers /\ answers[q] = rounds}

\* C23: a step taken while the chat is clarifying calls the planner only if
\* every pending question has been answered (in this round), and the call
\* then carries the original query and those answers; so while a pending
\* question is unanswered no planner call is made.
C23_ReinvokeOnlyWhenAllAnswered ==
  [][ (phase = "clarifying" /\ run'.pc = "planner") =>
        /\ AnsweredNow(clarificationAnswers') = clarifications
        /\ run'.query \in Queries
        /\ AnsweredNow(run'.answers) = clarifications ]_vars

\* The chat model gives a plan by its options; the axes of such a plan are
\* the MaxAxes axes of AxesChoices.
PlanAxes == [k \in 1 .. MaxAxes |-> k]

\* C25: the result stored on a completed session has a score entry for every
\* option of the session's plan on every axis of the plan.
C25_ScoresCoverPlan ==
  \A i \in DOMAIN sessions :
    (sessions[i].status = "complete" /\ sessions[i].result # None
       /\ sessions[i].plan # None) =>
      \A o \in DOMAIN sessions[i].plan[1], a \in DOMAIN PlanAxes :
        \E k \in DOMAIN sessions[i].result[1].scores :
          /\ sessions[i].result[1].scores[k].option = sessions[i].plan[1][o]
          /\ sessions[i].result[1].scores[k].axis = PlanAxes[a]

\* ------------------------------- further claims on executeInParallel
\* Does the returned results array hold the worker's value at index j?
InResults(j) ==
  results[j] # Undefined /\ results[j] = WorkerValue(execOpts.items[j + 1])

\* The number of entries of the returned errors list with index j.
ErrorEntries(j) == Cardinality({k \in DOMAIN errors : errors[k] = j})

\* C26: when executeInParallel returns, every index is either a slot of
\* results holding the item's worker value or the index of exactly one entry
\* of errors, never both; successful and failed are the sizes of those two
\* sets of indices, and successful + failed = N.
C26_ResultsAndErrorsPartition ==
  promise = "resolved" =>
    /\ \A j \in Indices :
         \/ InResults(j) /\ ErrorEntries(j) = 0
         \/ ~InResults(j) /\ ErrorEntries(j) = 1
    /\ successful = Cardinality({j \in Indices : InResults(j)})
    /\ failed = Cardinality({j \in Indices : ErrorEntries(j) = 1})
    /\ successful + failed = N

\* C27: whatever lifecycle hook throws, the run is not stopped (the promise
\* is not rejected and a pending run has a worker left to wait for) and, when
\* it resolves, every item has been run once and is reported by its worker's
\* outcome alone: failed exactly if its executor rejected, successful
\* otherwise, never both.
C27_HookThrowsAreHarmless ==
  /\ promise # "rejected"
  /\ promise = "pending" => InFlight # {}
  /\ promise = "resolved" =>
       /\ \A j \in Indices :
            /\ calls[j] = 1
            /\ InResults(j) <=> j \notin execOpts.failing
            /\ ErrorEntries(j) = (IF j \in execOpts.failing THEN 1 ELSE 0)
       /\ successful = N - Cardinality(execOpts.failing)
       /\ failed = Cardinality(execOpts.failing)

\* ------------------------------------------------ progress of a run
\* One query in one mounted ComparisonChat, any maxParallelism setting, with
\* every request of the run settling eventually: the fetch of /api/planner,
\* each fetch of /api/advocate and /api/cross-examine, and the fetch (and
\* stream) of /api/referee.
LiveInit ==
  /\ ExecAtRest
  /\ UtilAtRest
  /\ \E mp \in 1 .. MaxParallelismSetting :
       StoresAsCreated(mp, [queries |-> 1, failures |-> MaxFailures,
                            rounds |-> MaxRounds])

RequestsSettle ==
  /\ WF_vars(PlannerAnswers)
  /\ \A j \in 0 .. (MaxOptions - 1) :
       /\ WF_vars(\E ok \in BOOLEAN : AdvocateSettles(j, ok))
       /\ WF_vars(\E ok \in BOOLEAN : CrossExamSettles(j, ok))
  /\ WF_vars(RefereeAnswers)

LiveSpec == LiveInit /\ [][Next]_vars /\ RequestsSettle

BusyPhases == {"planning", "advocating", "cross-examining", "refereeing"}
RestPhases == {"clarifying", "complete", "error"}

\* C28: when every request of a run settles eventually, a chat that is
\* planning, advocating, cross-examining or refereeing eventually is
\* clarifying (waiting for the user), complete or in error.
C28_RunReachesRest == (phase \in BusyPhases) ~> (phase \in RestPhases)

\* A run that asked for clarification, was answered, lost an advocate on the
\* way and completed.
C28_Witness ==
  /\ phase = "complete" /\ run = IdleRun /\ http = {}
  /\ rounds >= 1
  /\ quota.failures < MaxFailures

\* ---------------------------------- the session store called on its own
\* addTranscriptEntry(id, entry)
addTranscriptEntry(ss, id, entry) ==
  IF ~HasSession(ss, id) THEN ss
  ELSE LET session == getSession(ss, id)
           currentTranscript ==
             IF session.transcript # None THEN session.transcript[1]
             ELSE [entries |-> <<>>, completedAt |-> None]
       IN  [x \in DOMAIN ss |->
              IF ss[x].id = id
                THEN Spread(ss[x],
                            [transcript |->
                               Some(Spread(currentTranscript,
                                           [entries |-> Append(currentTranscript.entries,
                                                               entry)]))])
                ELSE ss[x]]

\* completeTranscript(id)
completeTranscript(ss, id) ==
  IF ~HasSession(ss, id) THEN ss
  ELSE IF getSession(ss, id).transcript = None THEN ss
  ELSE [x \in DOMAIN ss |->
          IF ss[x].id = id /\ ss[x].transcript # None
            THEN Spread(ss[x], [transcript |->
                                  Some(Spread(ss[x].transcript[1],
                                              [completedAt |-> Some("now")]))])
            ELSE ss[x]]

\* What a run writes with updateSession (ComparisonChat).
UpdateData ==
  { [plan |-> Some(<<"A">>), status |-> "advocating"],
    [status |-> "cross-examining"],
    [result |-> Some(RefereeResult(<<"A">>)), status |-> "complete"] }

\* Sessions 1 .. n have been created, newest first, and a pipeline run whose
\* closure holds the id of one of them is in flight; run.i counts the store
\* calls that run has made.
StoreInit ==
  /\ ExecAtRest
  /\ UtilAtRest
  /\ \E n \in 1 .. (MaxSessions + 1), target \in 1 .. (MaxSessions + 1) :
       /\ target <= n
       /\ sessions = [x \in 1 .. n |-> NewSession(n + 1 - x, "q1")]
       /\ currentSessionId = n
       /\ nextUUID = n + 1
       /\ sessionId = target
       /\ run = [IdleRun EXCEPT !.pc = "advocates", !.sid = target, !.query = "q1"]
  /\ maxParallelism = 1
  /\ phase = "advocating"
  /\ isLoading = TRUE
  /\ error = None
  /\ clarifications = {}
  /\ clarificationAnswers = NoAnswers
  /\ http = {}
  /\ rounds = 0
  /\ quota = [queries |-> 0, failures |-> 0, rounds |-> 0]

\* The user deletes a session in the history list.
DeleteSessionCall(id) ==
  /\ HasSession(sessions, id)
  /\ sessions' = deleteSession(sessions, id)
  /\ currentSessionId' = IF currentSessionId = id THEN NoId ELSE currentSessionId
  /\ UNCHANGED <<nextUUID, chatVars, execVars, utilVars>>

\* What every store call of the run in flight leaves alone; run.pc tells
\* whether the store held the run's session when the call was made.
LateCallFrame ==
  /\ run.i < MaxLateCalls
  /\ run' = [run EXCEPT !.i = run.i + 1,
                        !.pc = IF HasSession(sessions, run.sid)
                                 THEN "advocates" ELSE "orphaned"]
  /\ UNCHANGED <<currentSessionId, nextUUID, maxParallelism, sessionId, phase,
                 isLoading, error, clarifications, clarificationAnswers, http,
                 rounds, quota, execVars, utilVars>>

UpdateSessionCall(data) ==
  /\ sessions' = updateSession(sessions, run.sid, data)
  /\ LateCallFrame

MarkSessionErrorCall ==
  /\ sessions' = markSessionError(sessions, run.sid, "AGENT_FAILED")
  /\ LateCallFrame

AddTranscriptEntryCall(entry) ==
  /\ sessions' = addTranscriptEntry(sessions, run.sid, entry)
  /\ LateCallFrame

CompleteTranscriptCall ==
  /\ sessions' = completeTranscript(sessions, run.sid)
  /\ LateCallFrame

StoreNext ==
  \/ \E id \in 1 .. (MaxSessions + 1) : DeleteSessionCall(id)
  \/ \E data \in UpdateData : UpdateSessionCall(data)
  \/ MarkSessionErrorCall
  \/ \E entry \in {"agent_response", "error"} : AddTranscriptEntryCall(entry)
  \/ CompleteTranscriptCall

StoreSpec == StoreInit /\ [][StoreNext]_vars

\* C29: once the session a run writes to has been deleted, a store call of
\* that run (updateSession, markSessionError, addTranscriptEntry or
\* completeTranscript for that id) does not make a session with that id
\* exist again and leaves the remaining sessions, and the current session,
\* as they were.
C29_DeletedSessionStaysDeleted ==
  [][ (run'.i # run.i /\ ~HasSession(sessions, run.sid)) =>
        /\ ~HasSession(sessions', run.sid)
        /\ sessions' = sessions
        /\ currentSessionId' = currentSessionId ]_vars

\* The run has made a store call after its session was deleted, and another
\* session remains, with what it held.
C29_Witness ==
  /\ run.pc = "orphaned"
  /\ ~HasSession(sessions, run.sid)
  /\ \E x \in DOMAIN sessions : sessions[x] = NewSession(sessions[x].id, "q1")

\* ----------------------------------- placeholders passed to the Referee
\* No per-option request of the run has failed.
NoCallFailed == quota.failures = SpecQuota.failures

\* C30: for a plan of 1, 2 or 3 distinct options, if no agent call failed,
\* no cross-examination result passed to the Referee carries an error.
C30_NoPlaceholderWithoutFailure ==
  (/\ run.pc = "referee" /\ Req("referee", 0) \in http
   /\ \A i, k \in DOMAIN run.plan : run.plan[i] = run.plan[k] => i = k
   /\ NoCallFailed)
    => \A k \in DOMAIN run.ceResponses : ~run.ceResponses[k].error

====
